---- MODULE Spec2Model ----
(***************************************************************************)
(* worker-nostr-r2-upload: a Cloudflare Worker that stores files in an R2  *)
(* bucket under their SHA-256 and authorizes PUT and DELETE with signed    *)
(* nostr events.                                                           *)
(*                                                                         *)
(* src/ holds three revisions of the router-based worker.  They share the  *)
(* middleware chain auth -> restricted -> handler and differ in the token  *)
(* they accept and in how the `<hash>.metadata.json` sidecar is written:   *)
(*   "nip98"   src/unnamed/part_001      NIP-98 token (kind 27235);        *)
(*             sidecar built and signed by the service, in the background  *)
(*   "service" src/deps.ts:12-284        kind 1063 token; sidecar built    *)
(*             and signed by the service, in the background                *)
(*   "bound"   src/worker_env.d.ts:9-252 kind 1063 token bound to the      *)
(*             request URL; the token itself is stored as the sidecar      *)
(* The revision is fixed at start-up (variable `variant`).  The pre-router *)
(* prototypes (src/index.ts:1-188, src/src/worker.ts:1-127) are not        *)
(* modelled: their PUT hashes the response of an outbound fetch(request)   *)
(* and their token check calls the library without the request URL.        *)
(*                                                                         *)
(* Every `await` on the role store or the bucket is a separate step, and   *)
(* the background provenance tasks of earlier PUTs interleave with later   *)
(* requests.  Under Spec one request is in flight at a time (slot r1) and  *)
(* the clients send every kind of request; under SpecRace two requests are *)
(* in flight (slots r1, r2) and the clients send well-formed requests.     *)
(***************************************************************************)
EXTENDS Integers, Sequences, FiniteSets, TLC

\* ------------------------------------------------------------------ bounds
\* Number of requests the clients send in one behaviour.
MaxRequests == 2

\* ------------------------------------------------------------- value sets
Variants == {"nip98", "service", "bound"}
\* The slot of the requests that are handled one after another.
Slots == {"r1"}
\* The requests that can be in flight at once: the runtime interleaves the
\* handlers of two requests at their awaits.
Inflight == {"r1", "r2"}
Methods == {"HEAD", "GET", "PUT", "DELETE"}

\* Path parameters: two spellings of one digest and a string that is no hash.
\* "aa" stands for 64 lowercase hex characters, "AA" for the same digest in
\* upper case, "zz" for a parameter such as `not-a-hash`.
HashParams == {"aa", "AA", "zz"}
\* Request bodies: "x" and "y" are byte strings, "nobody" is a request
\* without body.
Bodies == {"x", "y"}
NoBody == "nobody"
None == "none"

\* Digest of a body, as lowercase hex.
Sha256Hex(body) == IF body = "x" THEN "aa" ELSE "bb"
\* String.prototype.toUpperCase / lower-casing of a hex string.
ToUpperCase(s) ==
  CASE s = "aa" -> "AA" [] s = "bb" -> "BB" [] OTHER -> s
ToLowerCase(s) ==
  CASE s = "AA" -> "aa" [] s = "BB" -> "bb" [] OTHER -> s
\* Number of bytes of a body.
SizeOf(body) == IF body = "x" THEN 1 ELSE 2

\* hexKeyPattern = /^[0-9A-Fa-f]{64}$/
hexKeyPattern(s) == s \in {"aa", "AA", "bb", "BB"}

\* request.url for PUT|DELETE|GET|HEAD /file/:hash on the service's host.
UrlOf(path) == <<"https://host/file", path>>
OtherUrl == <<"https://host", "file.txt">>
\* An event without `u`/`url` tag.
NoUrl == <<>>

\* Identities (public keys) and the role store's content.
Callers == {"alice", "bob", "adm", "ban", "anon"}
ServiceKey == "svc"
RoleTable ==
  [p \in Callers \cup {ServiceKey} |->
     CASE p = "alice" -> "user"
       [] p = "bob"   -> "user"
       [] p = "adm"   -> "admin"
       [] p = "ban"   -> "banned"
       [] OTHER       -> None]
\* BANBOORU_PUBKEY_ROLE_KV.get(pubkey): the role, or null for an unknown key.
RoleOf(p) == IF p \in DOMAIN RoleTable THEN RoleTable[p] ELSE None

\* NIP-26 delegation tag (from, cond, sig), abstracted to its delegator and to
\* what nip26.getDelegator makes of it: "valid" (conditions and signature
\* verify for the event's signer), "invalid" (they do not), "malformed"
\* (verification throws).
NoDelegation == [from |-> None, state |-> None]
Delegations ==
  {NoDelegation} \cup
  [from : {"bob", "ban"}, state : {"valid", "invalid", "malformed"}]


\* --------------------------------------------------------------- requests
\* A decoded Authorization header.  form: "none" (no header), "garbage"
\* (nip98.unpackEventFromToken throws) or "event".  The fields of an event:
\* its signer, kind, whether its signature verifies, its `u`/`url` tag, its
\* `method` tag, whether created_at is recent, its `x` and `payload` tags,
\* its `delegation` tag and its `m` and `size` tags (size 0 when absent).
Token(form, pubkey, kind, sig, url, meth, fresh, x, payload, deleg, m, size) ==
  [form |-> form, pubkey |-> pubkey, kind |-> kind, sig |-> sig, url |-> url,
   meth |-> meth, fresh |-> fresh, x |-> x, payload |-> payload, deleg |-> deleg,
   m |-> m, size |-> size]
NoToken ==
  Token("none", None, 0, FALSE, NoUrl, None, FALSE, None, None, NoDelegation,
        None, 0)
GarbageToken ==
  Token("garbage", None, 0, FALSE, NoUrl, None, FALSE, None, None,
        NoDelegation, None, 0)

\* The token a well-behaved client of revision v mints for a request: a
\* NIP-98 event (kind 27235) with `u` and `method` tags, or a NIP-94 event
\* (kind 1063) with `url` and `x` tags, as in the tests' fileMetadataEvent.
WellFormed(v, method, path, p) ==
  IF v = "nip98"
    THEN Token("event", p, 27235, TRUE, UrlOf(path), method, TRUE, None, None,
               NoDelegation, None, 0)
    ELSE Token("event", p, 1063, TRUE, UrlOf(path), None, TRUE, path, None,
               NoDelegation, "text/plain", SizeOf("x"))

\* Tokens that differ from alice's well-formed token in one field.
Deviations(v, method, path) ==
  LET t == WellFormed(v, method, path, "alice")
      common ==
        { [t EXCEPT !.sig = FALSE],
          [t EXCEPT !.kind = IF v = "nip98" THEN 1063 ELSE 27235],
          [t EXCEPT !.url = OtherUrl],
          [t EXCEPT !.url = NoUrl],
          [t EXCEPT !.fresh = FALSE],
          [WellFormed(v, method, path, "ban") EXCEPT !.url = OtherUrl] }
      nip98 ==
        { [t EXCEPT !.meth = "GET"], [t EXCEPT !.meth = "PUT"],
          [t EXCEPT !.payload = path], [t EXCEPT !.payload = "bb"],
          [t EXCEPT !.payload = ToLowerCase(path)] }
      kind1063 ==
        { [t EXCEPT !.x = None], [t EXCEPT !.x = ToUpperCase(path)],
          [t EXCEPT !.x = ToLowerCase(path)], [t EXCEPT !.x = "bb"],
          [t EXCEPT !.m = "image/png"], [t EXCEPT !.size = SizeOf("y")],
          [t EXCEPT !.x = "bb", !.url = OtherUrl] }
      delegated ==
        { [t EXCEPT !.deleg = d] : d \in Delegations }
  IN  common \cup
      (IF v = "nip98" THEN nip98 ELSE kind1063) \cup
      (IF v = "bound" THEN delegated ELSE {})

Tokens(v, method, path) ==
  {NoToken, GarbageToken} \cup
  { WellFormed(v, method, path, p) : p \in Callers } \cup
  Deviations(v, method, path)

\* The `x-nip-26-delegation` request header: absent, a delegation, or text
\* that JSON.parse rejects.
BadJson == [from |-> None, state |-> "badjson"]
DelegationHeaders ==
  {NoDelegation, BadJson} \cup
  [from : {"bob"}, state : {"valid", "invalid", "malformed"}]

Request(method, path, token, body, ctype, dh) ==
  [method |-> method, path |-> path, token |-> token, body |-> body,
   ctype |-> ctype, dh |-> dh]
NoRequest == Request(None, None, NoToken, NoBody, None, NoDelegation)

\* The requests clients send to revision v.
Requests(v) ==
  { Request(m, h, NoToken, NoBody, None, NoDelegation) :
      m \in {"HEAD", "GET"}, h \in HashParams } \cup
  { Request("GET", "aa", WellFormed(v, "GET", "aa", "ban"), NoBody, None,
            NoDelegation) } \cup
  UNION { { Request("DELETE", h, t, NoBody, None, NoDelegation) :
              t \in Tokens(v, "DELETE", h) } : h \in HashParams } \cup
  UNION { { Request("PUT", h, t, b, "text/plain", NoDelegation) :
              t \in Tokens(v, "PUT", h), b \in Bodies \cup {NoBody} } :
          h \in HashParams } \cup
  { Request("PUT", "aa", WellFormed(v, "PUT", "aa", "alice"), "x", None,
            NoDelegation) } \cup
  (IF v = "nip98"
     THEN { Request("PUT", "aa", WellFormed(v, "PUT", "aa", "alice"), "x",
                    "text/plain", dh) : dh \in DelegationHeaders }
     ELSE {})

\* ------------------------------------------------------------ the bucket
\* Keys of BANBOORU_BUCKET: the file under its path parameter and the sidecar
\* under `${key}.metadata.json`.  "undefined" is what a missing params field
\* becomes inside a key.
KeyNames == {"aa", "AA", "undefined"}
FileKey(name) == <<name>>
MetaKey(name) == <<name, ".metadata.json">>
Keys == { FileKey(n) : n \in KeyNames } \cup { MetaKey(n) : n \in KeyNames }

Absent == [type |-> "absent"]
\* The cacheControl putFile asks for: a year, immutable.
CacheControl == "public, max-age=31536000, immutable"
\* R2Object of a stored file: its bytes, httpMetadata.contentType and
\* cacheControl, size and checksums.sha256.
FileObject(body, ctype) ==
  [type |-> "file", body |-> body, ctype |-> ctype, size |-> SizeOf(body),
   sha256 |-> Sha256Hex(body), cacheControl |-> CacheControl]
\* A stored sidecar: the JSON of a signed event.
EventObject(event) == [type |-> "event", event |-> event]

VARIABLES
  variant,   \* the revision of the worker that is deployed
  bucket,    \* BANBOORU_BUCKET: key -> stored object or Absent
  tasks,     \* promises handed to workerContext.waitUntil, not yet settled
  nreq,      \* number of requests received so far
  req,       \* slot -> the request being handled (or handled last)
  pc,        \* slot -> where its handler stands
  role,      \* slot -> ctx.user.role once auth has looked it up
  meta,      \* slot -> deleteFile's fileMetadata once the sidecar is read
  status,    \* slot -> status of the Response, 0 while there is none
  calls      \* slot -> the calls the request has made, with their outcomes

vars == <<variant, bucket, tasks, nreq, req, pc, role, meta, status, calls>>

Init ==
  /\ variant \in Variants
  /\ bucket = [k \in Keys |-> Absent]
  /\ tasks = {}
  /\ nreq = 0
  /\ req = [r \in Inflight |-> NoRequest]
  /\ pc = [r \in Inflight |-> "idle"]
  /\ role = [r \in Inflight |-> None]
  /\ meta = [r \in Inflight |-> Absent]
  /\ status = [r \in Inflight |-> 0]
  /\ calls = [r \in Inflight |-> <<>>]


\* ---------------------------------------------------------- authentication
\* nip98.unpackEventFromToken: decodes the header; throws on undecodable text.
unpackEventFromToken(token) == token.form = "event"

\* nip98.validateEvent(event, request.url, request.method): a NIP-98 event
\* is valid for a request when it is signed, of kind 27235, recent, and its
\* `u` and `method` tags are the request's URL and method.
nip98_validateEvent(event, url, method) ==
  /\ event.sig
  /\ event.kind = 27235
  /\ event.fresh
  /\ event.url = url
  /\ event.meth = method

\* get_auth_event (revision nip98): TRUE iff it returns the event, FALSE iff
\* it returns { error }.
get_auth_event(q) ==
  /\ q.token.form # "none"
  /\ unpackEventFromToken(q.token)
  /\ nip98_validateEvent(q.token, UrlOf(q.path), q.method)

\* Mutant of get_file_metadata_event: verifySignature is not called.
get_file_metadata_event_unverified(q) ==
  /\ q.token.form # "none"
  /\ unpackEventFromToken(q.token)
  /\ q.token.kind = 1063

\* get_file_metadata_event (revisions service and bound): TRUE iff it returns
\* the event, FALSE iff it returns { error }.
get_file_metadata_event(q) ==
  /\ q.token.form # "none"
  /\ unpackEventFromToken(q.token)
  /\ q.token.kind = 1063
  /\ q.token.sig

\* Mutant of Authenticated: the route is registered without the auth wrapper.
Authenticated_noAuth(v, q) == TRUE

\* The check the auth middleware of revision v applies to the header.
Authenticated(v, q) ==
  IF v = "nip98" THEN get_auth_event(q) ELSE get_file_metadata_event(q)

\* Mutant of restricted: the handler is registered without the role check.
restricted_open(roles, userRole) == TRUE

\* Mutant of restricted: any stored role passes, whatever roles lists.
restricted_anyRole(roles, userRole) == userRole # None

\* restricted(roles, next): next runs iff the looked-up role is one of roles.
restricted(roles, userRole) == userRole # None /\ userRole \in roles
PutRoles == {"admin", "user"}
DeleteRoles == {"admin", "user"}

\* ----------------------------------------------------------------- putFile
\* Mutant of PutPrecheck: the `x` tag is compared with the path as spelt.
PutPrecheck_exactCase(v, q) ==
  LET t == q.token IN
  IF ~hexKeyPattern(q.path) THEN 400
  ELSE IF q.body = NoBody THEN 400
  ELSE IF v = "bound" /\ UrlOf(q.path) # t.url THEN 401
  ELSE IF v = "nip98" /\ t.payload # None /\ t.payload # q.path THEN 401
  ELSE IF v # "nip98" /\ t.x # None /\ t.x # q.path THEN 400
  ELSE 0

\* Mutant of PutPrecheck: the test of request.body is dropped.
PutPrecheck_anyBody(v, q) ==
  LET t == q.token IN
  IF ~hexKeyPattern(q.path) THEN 400
  ELSE IF v = "bound" /\ UrlOf(q.path) # t.url THEN 401
  ELSE IF v = "nip98" /\ t.payload # None /\ t.payload # q.path THEN 401
  ELSE IF v # "nip98" /\ t.x # None
            /\ ToUpperCase(t.x) # ToUpperCase(q.path) THEN 400
  ELSE 0

\* The synchronous checks of putFile before it first calls the bucket: the
\* status of the early return, or 0 when putFile goes on.
PutPrecheck(v, q) ==
  LET t == q.token IN
  IF ~hexKeyPattern(q.path) THEN 400
  ELSE IF q.body = NoBody THEN 400
  ELSE IF v = "bound" /\ UrlOf(q.path) # t.url THEN 401
  ELSE IF v = "nip98" /\ t.payload # None /\ t.payload # q.path THEN 401
  ELSE IF v # "nip98" /\ t.x # None
            /\ ToUpperCase(t.x) # ToUpperCase(q.path) THEN 400
  ELSE 0

\* Mutant of Conflict: the test of the existence check is inverted.
Conflict_inverted(object) == object = Absent

\* Mutant of Conflict: the existence check is dropped.
Conflict_never(object) == FALSE

\* putFile answers Conflict when head(params.hash) yields an object.
Conflict(object) == object # Absent

\* Mutant of ChecksumMatches: put is called without the sha256 option, so
\* the bucket accepts any bytes.
ChecksumMatches_noOption(sha256, body) == TRUE

\* R2's integrity check of put(key, body, { sha256 }): the bytes received
\* must have the digest given in the option (hex, either case).
ChecksumMatches(sha256, body) == ToLowerCase(sha256) = Sha256Hex(body)

\* Mutant of PutRejected: the signed hash is ignored, every rejected put is
\* a Bad Request.
PutRejected_always400(v, q) == 400

\* The status putFile returns when put yields no object.
PutRejected(v, q) ==
  IF v = "nip98"
    THEN (IF q.token.payload # None THEN 401 ELSE 400)
    ELSE (IF q.token.x # None THEN 401 ELSE 400)

\* Mutant of BuildMetadata: the event is signed with a key of an uploader.
BuildMetadata_uploaderKey(key, object, delegation) ==
  [pubkey |-> "alice", kind |-> 1063, sig |-> TRUE,
   url |-> <<"https://host", key>>,
   m |-> IF object.ctype # None THEN object.ctype
         ELSE "application/octet-stream",
   x |-> object.sha256, size |-> object.size, deleg |-> delegation]

\* Mutant of BuildMetadata: the `m` tag is always the default media type.
BuildMetadata_noMediaType(key, object, delegation) ==
  [pubkey |-> ServiceKey, kind |-> 1063, sig |-> TRUE,
   url |-> <<"https://host", key>>,
   m |-> "application/octet-stream",
   x |-> object.sha256, size |-> object.size, deleg |-> delegation]

\* Mutant of BuildMetadata: the `x` tag is the object's key as spelled.
BuildMetadata_keyAsX(key, object, delegation) ==
  [pubkey |-> ServiceKey, kind |-> 1063, sig |-> TRUE,
   url |-> <<"https://host", key>>,
   m |-> IF object.ctype # None THEN object.ctype
         ELSE "application/octet-stream",
   x |-> key, size |-> object.size, deleg |-> delegation]

\* handleMetadada: the kind 1063 event the service builds from the stored
\* object and signs with env.PRIVATE_KEY.
BuildMetadata(key, object, delegation) ==
  [pubkey |-> ServiceKey, kind |-> 1063, sig |-> TRUE,
   url |-> <<"https://host", key>>,
   m |-> IF object.ctype # None THEN object.ctype
         ELSE "application/octet-stream",
   x |-> object.sha256, size |-> object.size, deleg |-> delegation]

\* -------------------------------------------------------------- deleteFile
\* The name deleteFile uses for its lookups: revision nip98 reads
\* `params.hahs`, a field the router never sets.
LookupName(v, q) == IF v = "nip98" THEN "undefined" ELSE q.path

isPublisher(userId, event) == event.pubkey = userId

\* Mutant of getDelegator: the tag's conditions and signature are not
\* verified.
getDelegator_unverified(event) == event.deleg.from

\* nip26.getDelegator: the delegator of an event with a delegation tag that
\* verifies, null otherwise.
getDelegator(event) ==
  IF event.deleg.state = "valid" THEN event.deleg.from ELSE None

\* Mutant of isDelegator: the delegator named by the tag is taken at its
\* word, without nip26.getDelegator.
isDelegator_named(userId, event) == event.deleg.from = userId

\* isDelegator: false when getDelegator throws.
isDelegator(userId, event) ==
  IF event.deleg.state = "malformed" THEN FALSE
  ELSE getDelegator(event) = userId

\* Mutant of DeletePrecheck: a malformed hash is Not Found, as for reads.
DeletePrecheck_notFound(v, q) == IF hexKeyPattern(q.path) THEN 0 ELSE 404

\* The synchronous check of deleteFile before it first calls the bucket:
\* the status of the early return, or 0 when deleteFile goes on.
DeletePrecheck(v, q) == IF hexKeyPattern(q.path) THEN 0 ELSE 400

\* Mutant of DeletePermitted: the decision is dropped.
DeletePermitted_always(userRole, userId, metadata) == TRUE

\* Mutant of DeletePermitted: a file without sidecar may be deleted by
\* anyone who passed the role gate.
DeletePermitted_defaultAllow(userRole, userId, metadata) ==
  \/ userRole = "admin"
  \/ metadata = Absent
  \/ isPublisher(userId, metadata.event)
  \/ isDelegator(userId, metadata.event)

\* The condition under which deleteFile issues the deletes; metadata is the
\* object read from the sidecar key, or Absent.
DeletePermitted(userRole, userId, metadata) ==
  \/ userRole = "admin"
  \/ /\ metadata # Absent
     /\ \/ isPublisher(userId, metadata.event)
        \/ isDelegator(userId, metadata.event)


\* ------------------------------------------------------------------ steps
Finish(r, code) ==
  /\ pc' = [pc EXCEPT ![r] = "done"]
  /\ status' = [status EXCEPT ![r] = code]

\* An exception leaves the repository's handler (no try block around it).
Throw(r) ==
  /\ pc' = [pc EXCEPT ![r] = "thrown"]
  /\ UNCHANGED status

Goto(r, label) ==
  /\ pc' = [pc EXCEPT ![r] = label]
  /\ UNCHANGED status

\* The request of slot r calls op on key; outcome is "ok" (a value came
\* back), "null" (nothing there, or nothing stored) or "throw".
Call(r, op, key, outcome) ==
  calls' = [calls EXCEPT ![r] = Append(@, <<op, key, outcome>>)]

\* Mutant of Public: every route is wrapped in restricted.
Public_none(method) == FALSE

\* The routes whose handler is registered bare, without restricted(auth).
Public(method) == method \in {"HEAD", "GET"}

\* A request arrives and the router dispatches it.  HEAD and GET check the
\* path parameter; PUT and DELETE enter auth, which decodes and checks the
\* Authorization header before anything else.
Arrive(r, requests) ==
  /\ pc[r] \in {"idle", "done", "thrown"}
  /\ nreq < MaxRequests
  /\ \E q \in requests :
       /\ req' = [req EXCEPT ![r] = q]
       /\ role' = [role EXCEPT ![r] = None]
       /\ meta' = [meta EXCEPT ![r] = Absent]
       /\ IF Public(q.method)
            THEN /\ calls' = [calls EXCEPT ![r] = <<>>]
                 /\ IF hexKeyPattern(q.path)
                      THEN /\ pc' = [pc EXCEPT ![r] =
                                       IF q.method = "HEAD" THEN "head" ELSE "get"]
                           /\ status' = [status EXCEPT ![r] = 0]
                      ELSE Finish(r, 404)
            ELSE IF Authenticated(variant, q)
              THEN /\ calls' = [calls EXCEPT ![r] = << <<"auth", <<>>, "ok">> >>]
                   /\ pc' = [pc EXCEPT ![r] = "kv"]
                   /\ status' = [status EXCEPT ![r] = 0]
              ELSE /\ calls' = [calls EXCEPT ![r] = << <<"auth", <<>>, "throw">> >>]
                   /\ Finish(r, 401)
  /\ nreq' = nreq + 1
  /\ UNCHANGED <<variant, bucket, tasks>>

\* A client sends one of the requests of Requests.
Receive(r) == Arrive(r, Requests(variant))

\* Mutant of ReadStatus: the null test is dropped.
ReadStatus_always200(object) == 200

\* The status of HEAD and GET once the bucket has answered: Not Found for
\* null, otherwise a Response with the default status.
ReadStatus(object) == IF object = Absent THEN 404 ELSE 200

\* HEAD /file/:hash, after the await on head.
HeadFile(r) ==
  LET key == FileKey(req[r].path) IN
  /\ pc[r] = "head"
  /\ \/ Call(r, "head", key, "throw") /\ Throw(r)
     \/ /\ bucket[key] = Absent
        /\ Call(r, "head", key, "null") /\ Finish(r, ReadStatus(bucket[key]))
     \/ /\ bucket[key] # Absent
        /\ Call(r, "head", key, "ok") /\ Finish(r, ReadStatus(bucket[key]))
  /\ UNCHANGED <<variant, bucket, tasks, nreq, req, role, meta>>

\* GET /file/:hash, after the await on get.
GetFile(r) ==
  LET key == FileKey(req[r].path) IN
  /\ pc[r] = "get"
  /\ \/ Call(r, "get", key, "throw") /\ Throw(r)
     \/ /\ bucket[key] = Absent
        /\ Call(r, "get", key, "null") /\ Finish(r, ReadStatus(bucket[key]))
     \/ /\ bucket[key] # Absent
        /\ Call(r, "get", key, "ok") /\ Finish(r, ReadStatus(bucket[key]))
  /\ UNCHANGED <<variant, bucket, tasks, nreq, req, role, meta>>

\* auth awaits BANBOORU_PUBKEY_ROLE_KV.get(pubkey); restricted then checks
\* the role and the handler runs up to its first call of the bucket.
KvGet(r) ==
  LET q == req[r]
      userRole == RoleOf(q.token.pubkey)
      roles == IF q.method = "PUT" THEN PutRoles ELSE DeleteRoles
      early == IF q.method = "PUT" THEN PutPrecheck(variant, q)
               ELSE DeletePrecheck(variant, q)
  IN
  /\ pc[r] = "kv"
  /\ \/ /\ Call(r, "kv.get", <<q.token.pubkey>>, "throw")
        /\ Throw(r)
        /\ UNCHANGED role
     \/ /\ Call(r, "kv.get", <<q.token.pubkey>>,
                IF userRole = None THEN "null" ELSE "ok")
        /\ role' = [role EXCEPT ![r] = userRole]
        /\ IF ~restricted(roles, userRole) THEN Finish(r, 403)
           ELSE IF early # 0 THEN Finish(r, early)
           ELSE Goto(r, IF q.method = "PUT" THEN "put_head" ELSE "del_get")
  /\ UNCHANGED <<variant, bucket, tasks, nreq, req, meta>>

\* putFile, after the await on head(params.hash): Conflict when an object
\* is there, otherwise the put is issued.  An exception of the bucket is
\* caught by putFile's try block.
PutHead(r) ==
  LET q == req[r]
      key == FileKey(q.path)
  IN
  /\ pc[r] = "put_head"
  /\ \/ Call(r, "head", key, "throw") /\ Finish(r, 500)
     \/ /\ Call(r, "head", key, IF bucket[key] = Absent THEN "null" ELSE "ok")
        /\ IF Conflict(bucket[key]) THEN Finish(r, 409)
           ELSE Goto(r, "put_put")
  /\ UNCHANGED <<variant, bucket, tasks, nreq, req, role, meta>>

\* Mutant of Overwrites: the put carries onlyIf and stores nothing over an
\* object that is there.
Overwrites_createIfAbsent(object) == object = Absent

\* Whether put(key, body, { sha256, httpMetadata }) stores over what the key
\* holds: the options carry no onlyIf, so the bucket stores whether or not an
\* object is there.
Overwrites(object) == TRUE

\* Mutant of AfterPut: 204 is answered as soon as the object is stored and
\* nothing is written beside it.
AfterPut_noSidecar(r, object) == Finish(r, 204) /\ UNCHANGED tasks

\* What follows a put that returned the stored object.  Revisions nip98 and
\* service hand handleMetadada's promise to waitUntil and answer 204 (in
\* nip98 the x-nip-26-delegation header is parsed first, inside the try
\* block); revision bound awaits the put of the sidecar.
AfterPut(r, object) ==
  LET q == req[r] IN
  IF variant = "bound" THEN Goto(r, "put_meta") /\ UNCHANGED tasks
  ELSE IF variant = "nip98" /\ q.dh = BadJson
    THEN Finish(r, 500) /\ UNCHANGED tasks
  ELSE /\ tasks' = tasks \cup
                     {[id |-> nreq, slot |-> r, name |-> q.path,
                       event |-> BuildMetadata(q.path, object, q.dh)]}
       /\ Finish(r, 204)

\* putFile, after the await on put(params.hash, request.body, { sha256:
\* params.hash, httpMetadata }).  The bucket stores the object when the
\* bytes have the digest asked for; when they have not, it stores nothing
\* and either yields no object or throws.
PutObject(r) ==
  LET q == req[r]
      key == FileKey(q.path)
      object == FileObject(q.body, q.ctype)
  IN
  /\ pc[r] = "put_put"
  /\ \/ /\ Call(r, "put", key, "throw")
        /\ Finish(r, 500)
        /\ UNCHANGED <<bucket, tasks>>
     \/ /\ ChecksumMatches(q.path, q.body) /\ Overwrites(bucket[key])
        /\ Call(r, "put", key, "ok")
        /\ bucket' = [bucket EXCEPT ![key] = object]
        /\ AfterPut(r, object)
     \/ /\ ~(ChecksumMatches(q.path, q.body) /\ Overwrites(bucket[key]))
        /\ Call(r, "put", key, "null")
        /\ Finish(r, PutRejected(variant, q))
        /\ UNCHANGED <<bucket, tasks>>
  /\ UNCHANGED <<variant, nreq, req, role, meta>>

\* putFile of revision bound, after the await on
\* put(`${params.hash}.metadata.json`, JSON.stringify(fileMetadataEvent)).
PutMeta(r) ==
  LET q == req[r]
      key == MetaKey(q.path)
  IN
  /\ pc[r] = "put_meta"
  /\ \/ /\ Call(r, "put", key, "ok")
        /\ bucket' = [bucket EXCEPT ![key] = EventObject(q.token)]
        /\ Finish(r, 204)
     \/ /\ Call(r, "put", key, "throw")
        /\ Finish(r, 500)
        /\ UNCHANGED bucket
  /\ UNCHANGED <<variant, tasks, nreq, req, role, meta>>

\* The background task of a PUT completes: handleMetadada's put of the
\* sidecar takes effect.
ProvenanceWrite ==
  \E t \in tasks :
    /\ bucket' = [bucket EXCEPT ![MetaKey(t.name)] = EventObject(t.event)]
    /\ tasks' = tasks \ {t}
    /\ UNCHANGED <<variant, nreq, req, pc, role, meta, status, calls>>

\* The background task fails (the put throws) or is abandoned at teardown;
\* the rejection goes nowhere.
ProvenanceFail ==
  \E t \in tasks :
    /\ tasks' = tasks \ {t}
    /\ UNCHANGED <<variant, bucket, nreq, req, pc, role, meta, status, calls>>

\* deleteFile, after the await on get of the file.
DelGet(r) ==
  LET q == req[r]
      key == FileKey(LookupName(variant, q))
  IN
  /\ pc[r] = "del_get"
  /\ \/ Call(r, "get", key, "throw") /\ Finish(r, 500)
     \/ /\ bucket[key] = Absent
        /\ Call(r, "get", key, "null") /\ Finish(r, 404)
     \/ /\ bucket[key] # Absent
        /\ Call(r, "get", key, "ok") /\ Goto(r, "del_meta")
  /\ UNCHANGED <<variant, bucket, tasks, nreq, req, role, meta>>

\* deleteFile, after the await on get of the sidecar: the decision.
DelMeta(r) ==
  LET q == req[r]
      key == MetaKey(LookupName(variant, q))
  IN
  /\ pc[r] = "del_meta"
  /\ \/ /\ Call(r, "get", key, "throw")
        /\ Finish(r, 500)
        /\ UNCHANGED meta
     \/ /\ Call(r, "get", key, IF bucket[key] = Absent THEN "null" ELSE "ok")
        /\ meta' = [meta EXCEPT ![r] = bucket[key]]
        /\ IF DeletePermitted(role[r], q.token.pubkey, bucket[key])
             THEN Goto(r, "del_delete")
             ELSE Finish(r, 403)
  /\ UNCHANGED <<variant, bucket, tasks, nreq, req, role>>

\* Mutant of DeleteStatus: only the delete of the file is awaited.
DeleteStatus_fileOnly(okFile, okMeta) == IF okFile THEN 204 ELSE 500
\* Mutant of DeleteStatus: Promise.any in place of Promise.all.
DeleteStatus_anyResolved(okFile, okMeta) ==
  IF okFile \/ okMeta THEN 204 ELSE 500

\* The status deleteFile returns once Promise.all of the two deletes has
\* settled: 204 when both resolved, 500 (catch block) when either rejected.
DeleteStatus(okFile, okMeta) == IF okFile /\ okMeta THEN 204 ELSE 500

\* deleteFile, after the await on Promise.all of the two deletes.  Both
\* deletes are issued; each takes effect or throws on its own.
DelDelete(r) ==
  LET q == req[r]
      fileKey == FileKey(q.path)
      metaKey == MetaKey(LookupName(variant, q))
      outcome(ok) == IF ok THEN "ok" ELSE "throw"
  IN
  /\ pc[r] = "del_delete"
  /\ \E okFile \in BOOLEAN, okMeta \in BOOLEAN :
       /\ calls' = [calls EXCEPT ![r] =
                      @ \o << <<"delete", fileKey, outcome(okFile)>>,
                              <<"delete", metaKey, outcome(okMeta)>> >>]
       /\ bucket' = [k \in Keys |->
                       IF (k = fileKey /\ okFile) \/ (k = metaKey /\ okMeta)
                         THEN Absent ELSE bucket[k]]
       /\ Finish(r, DeleteStatus(okFile, okMeta))
  /\ UNCHANGED <<variant, tasks, nreq, req, role, meta>>

Next ==
  \/ \E r \in Slots : Receive(r)
  \/ \E r \in Slots : HeadFile(r)
  \/ \E r \in Slots : GetFile(r)
  \/ \E r \in Slots : KvGet(r)
  \/ \E r \in Slots : PutHead(r)
  \/ \E r \in Slots : PutObject(r)
  \/ \E r \in Slots : PutMeta(r)
  \/ \E r \in Slots : DelGet(r)
  \/ \E r \in Slots : DelMeta(r)
  \/ \E r \in Slots : DelDelete(r)
  \/ ProvenanceWrite
  \/ ProvenanceFail

Spec == Init /\ [][Next]_vars

\* The worker when every promise handed to waitUntil is run to completion
\* and its put succeeds: the runtime keeps the worker alive until the
\* promise has settled.
NextRun ==
  \/ \E r \in Slots : Receive(r)
  \/ \E r \in Slots : HeadFile(r)
  \/ \E r \in Slots : GetFile(r)
  \/ \E r \in Slots : KvGet(r)
  \/ \E r \in Slots : PutHead(r)
  \/ \E r \in Slots : PutObject(r)
  \/ \E r \in Slots : PutMeta(r)
  \/ \E r \in Slots : DelGet(r)
  \/ \E r \in Slots : DelMeta(r)
  \/ \E r \in Slots : DelDelete(r)
  \/ ProvenanceWrite

SpecRun == Init /\ [][NextRun]_vars /\ WF_vars(ProvenanceWrite)

\* The requests of two clients that upload, read and delete the same two
\* names: those of Requests that alice or adm sign well-formed, with the
\* body "x", and the reads.
RaceRequests(v) ==
  { q \in Requests(v) :
      /\ q.path \in {"aa", "AA"}
      /\ q.dh = NoDelegation
      /\ \/ q.method \in {"HEAD", "GET"} /\ q.token = NoToken
         \/ /\ q.method = "DELETE"
            /\ q.token \in { WellFormed(v, "DELETE", q.path, p) :
                                p \in {"alice", "adm"} }
         \/ /\ q.method = "PUT"
            /\ q.body = "x"
            /\ q.token \in { WellFormed(v, "PUT", q.path, p) :
                                p \in {"alice", "adm"} } }

\* A client sends one of the requests of RaceRequests.
ReceiveRace(r) == Arrive(r, RaceRequests(variant))

\* The worker with two requests in flight: every await of one handler is a
\* point where the other handler, or a background task, may run.
NextRace ==
  \/ \E r \in Inflight : ReceiveRace(r)
  \/ \E r \in Inflight : HeadFile(r)
  \/ \E r \in Inflight : GetFile(r)
  \/ \E r \in Inflight : KvGet(r)
  \/ \E r \in Inflight : PutHead(r)
  \/ \E r \in Inflight : PutObject(r)
  \/ \E r \in Inflight : PutMeta(r)
  \/ \E r \in Inflight : DelGet(r)
  \/ \E r \in Inflight : DelMeta(r)
  \/ \E r \in Inflight : DelDelete(r)
  \/ ProvenanceWrite
  \/ ProvenanceFail

SpecRace == Init /\ [][NextRace]_vars


\* ================================================================= claims
BucketOps == {"head", "get", "put", "delete"}
\* The request of slot r has called one of ops.
Issued(r, ops) == \E i \in DOMAIN calls[r] : calls[r][i][1] \in ops
\* No call of the request of slot r has thrown.
NoThrow(r) == \A i \in DOMAIN calls[r] : calls[r][i][3] # "throw"
\* The signer of the token of slot r.
Signer(r) == req[r].token.pubkey

\* C1: a PUT whose token passes authentication reaches the bucket only if
\* the role store holds admin or user for the signer; with a banned or
\* absent role the answer is 403 and no head, get, put or delete is issued.
C1_WriteGate ==
  \A r \in Slots :
    (req[r].method = "PUT" /\ Authenticated(variant, req[r])) =>
      /\ Issued(r, BucketOps) => RoleOf(Signer(r)) \in {"admin", "user"}
      /\ RoleOf(Signer(r)) \notin {"admin", "user"} =>
           /\ pc[r] \in {"kv", "thrown", "done"}
           /\ pc[r] = "done" => status[r] = 403
           /\ ~Issued(r, BucketOps)

C1_Witness ==
  \E r \in Slots :
    /\ req[r].method = "PUT" /\ Authenticated(variant, req[r])
    /\ RoleOf(Signer(r)) = "banned"
    /\ hexKeyPattern(req[r].path) /\ req[r].body \in Bodies
    /\ pc[r] = "done" /\ status[r] = 403

\* C2: a PUT without Authorization header is answered 401 at once, and
\* neither the role store nor the bucket is called for it.
C2_NoHeader ==
  \A r \in Slots :
    (req[r].method = "PUT" /\ req[r].token.form = "none") =>
      /\ pc[r] = "done" /\ status[r] = 401
      /\ ~Issued(r, BucketOps \cup {"kv.get"})

C2_Witness ==
  \E r \in Slots :
    /\ req[r].method = "PUT" /\ req[r].token.form = "none"
    /\ hexKeyPattern(req[r].path) /\ req[r].body \in Bodies
    /\ pc[r] = "done" /\ status[r] = 401 /\ nreq = 2

\* C3 (as claimed): a PUT that is acceptable but for its validly signed
\* token being bound to another URL (or method) than the request's is
\* answered 401 and never calls the bucket's put.
C3_UrlBinding ==
  \A r \in Slots :
    ( /\ req[r].method = "PUT"
      /\ req[r].token.form = "event" /\ req[r].token.sig
      /\ req[r].token.kind = (IF variant = "nip98" THEN 27235 ELSE 1063)
      /\ \/ req[r].token.url \notin {NoUrl, UrlOf(req[r].path)}
         \/ req[r].token.meth \notin {None, req[r].method}
      /\ RoleOf(Signer(r)) \in {"admin", "user"}
      /\ hexKeyPattern(req[r].path) /\ req[r].body \in Bodies
      /\ NoThrow(r) ) =>
      /\ pc[r] = "done" => status[r] = 401
      /\ ~Issued(r, {"put"})

\* C4: every file in the bucket is stored under a key that spells the
\* SHA-256 of its bytes (hex, in either case).
C4_ContentAddressed ==
  \A n \in KeyNames :
    bucket[FileKey(n)] # Absent =>
      /\ bucket[FileKey(n)].type = "file"
      /\ ToLowerCase(n) = Sha256Hex(bucket[FileKey(n)].body)

C4_Witness ==
  /\ bucket[FileKey("aa")] # Absent
  /\ bucket[FileKey("AA")] # Absent
  /\ \E r \in Slots : req[r].method = "PUT" /\ pc[r] = "done" /\ status[r] = 204


\* A PUT by a caller who passed the token check and the role gate, for a
\* well-formed hash, with a body whose SHA-256 is not the path hash.
MismatchedPut(r) ==
  /\ req[r].method = "PUT"
  /\ Authenticated(variant, req[r])
  /\ variant = "bound" => req[r].token.url = UrlOf(req[r].path)
  /\ RoleOf(Signer(r)) \in {"admin", "user"}
  /\ hexKeyPattern(req[r].path)
  /\ req[r].body \in Bodies
  /\ ToLowerCase(req[r].path) # Sha256Hex(req[r].body)

\* The token of slot r vouches for the path hash: an `x` tag spelling it
\* (kind 1063), or a `payload` tag (NIP-98).
VouchesForPath(r) ==
  IF variant = "nip98" THEN req[r].token.payload # None
  ELSE /\ req[r].token.x # None
       /\ ToUpperCase(req[r].token.x) = ToUpperCase(req[r].path)

\* C5 (as claimed): such a PUT is answered 400, never 401 and never 500,
\* and afterwards no object exists under the path hash.
C5_MismatchIs400 ==
  \A r \in Slots :
    ( /\ MismatchedPut(r) /\ pc[r] = "done" /\ NoThrow(r)
      /\ PutPrecheck(variant, req[r]) = 0 ) =>
      /\ status[r] = 400
      /\ bucket[FileKey(req[r].path)] = Absent

\* C5 (amended): such a PUT never stores its body and is never answered
\* 204.  It is answered 500 when a call throws and 409 when head finds an
\* object under the path hash; otherwise it is answered 401 if the token
\* vouches for the path hash and 400 if it does not, and whenever put was
\* called no object exists under the path hash afterwards.
C5_MismatchRejected ==
  \A r \in Slots :
    MismatchedPut(r) =>
      /\ \A i \in DOMAIN calls[r] :
           calls[r][i][1] = "put" => calls[r][i][3] # "ok"
      /\ pc[r] = "done" =>
           /\ status[r] \in {400, 401, 409, 500}
           /\ status[r] = 500 <=> ~NoThrow(r)
           /\ status[r] = 409 <=>
                \E i \in DOMAIN calls[r] :
                  calls[r][i] = <<"head", FileKey(req[r].path), "ok">>
           /\ status[r] \in {400, 401} =>
                status[r] = (IF VouchesForPath(r) THEN 401 ELSE 400)
      /\ bucket[FileKey(req[r].path)] # Absent =>
           /\ bucket[FileKey(req[r].path)].body # req[r].body
           /\ ~Issued(r, {"put"})

C5_Witness ==
  \E r \in Slots :
    /\ MismatchedPut(r) /\ pc[r] = "done" /\ status[r] = 401
    /\ \E i \in DOMAIN calls[r] :
         calls[r][i] = <<"put", FileKey(req[r].path), "null">>

\* The file under the path hash of slot r was stored before the request.
AlreadyStored(r) ==
  /\ req[r].path \in KeyNames
  /\ bucket[FileKey(req[r].path)] # Absent
  /\ \A i \in DOMAIN calls[r] :
       calls[r][i] # <<"put", FileKey(req[r].path), "ok">>

\* C6 (as claimed): a PUT, acceptable in itself, for a hash under which an
\* object is already stored is answered 409 whatever the caller's role is.
C6_ConflictAnyRole ==
  \A r \in Slots :
    ( /\ req[r].method = "PUT" /\ pc[r] = "done"
      /\ Authenticated(variant, req[r])
      /\ PutPrecheck(variant, req[r]) = 0
      /\ NoThrow(r)
      /\ AlreadyStored(r) ) => status[r] = 409

\* What a finished PUT for a stored hash was answered.
C6_Answer ==
  \A r \in Slots :
    (req[r].method = "PUT" /\ pc[r] = "done" /\ AlreadyStored(r)) =>
      /\ status[r] # 204
      /\ ( /\ Authenticated(variant, req[r])
           /\ NoThrow(r)
           /\ RoleOf(Signer(r)) \notin {"admin", "user"} ) => status[r] = 403
      /\ ( /\ Authenticated(variant, req[r])
           /\ NoThrow(r)
           /\ RoleOf(Signer(r)) \in {"admin", "user"}
           /\ PutPrecheck(variant, req[r]) = 0 ) => status[r] = 409

\* C6 (amended): a PUT for a hash under which an object is already stored
\* never changes the stored object and is never answered 204.  It is
\* answered 409 for a caller with role admin or user alike, when the request
\* passes the token and request checks and no call throws; a caller whose
\* role is banned or absent is answered 403.
C6_ConflictKeepsBytes ==
  [][ /\ C6_Answer'
      /\ \A r \in Slots :
           (req[r].method = "PUT" /\ pc'[r] # pc[r]) =>
             \A n \in KeyNames :
               bucket[FileKey(n)] # Absent =>
                 bucket'[FileKey(n)] = bucket[FileKey(n)] ]_vars

C6_Witness ==
  \E r \in Slots :
    /\ req[r].method = "PUT" /\ pc[r] = "done" /\ AlreadyStored(r)
    /\ RoleOf(Signer(r)) = "admin" /\ status[r] = 409

\* A finished DELETE with a valid token from a caller with role admin or
\* user, for a well-formed hash, none of whose calls threw.
FinishedDelete(r) ==
  /\ req[r].method = "DELETE" /\ pc[r] = "done"
  /\ Authenticated(variant, req[r])
  /\ RoleOf(Signer(r)) \in {"admin", "user"}
  /\ hexKeyPattern(req[r].path)
  /\ NoThrow(r)

\* The file under the path hash existed when the DELETE of slot r ran.
ExistedAtRequest(r) ==
  \/ bucket[FileKey(req[r].path)] # Absent
  \/ \E i \in DOMAIN calls[r] :
       calls[r][i] = <<"delete", FileKey(req[r].path), "ok">>

\* The sidecar of the path hash as it was when the DELETE of slot r decided.
SidecarAtDecision(r) ==
  IF \E i \in DOMAIN calls[r] :
       calls[r][i][1] = "get" /\ calls[r][i][2] = MetaKey(req[r].path)
    THEN meta[r]
    ELSE bucket[MetaKey(req[r].path)]

\* The caller is admin, the signer of the stored event or its delegator.
MayDelete(r) ==
  LET sidecar == SidecarAtDecision(r) IN
  \/ RoleOf(Signer(r)) = "admin"
  \/ /\ sidecar # Absent
     /\ \/ sidecar.event.pubkey = Signer(r)
        \/ /\ sidecar.event.deleg.state = "valid"
           /\ sidecar.event.deleg.from = Signer(r)

\* C7 (as claimed, for callers that pass the role gate): a DELETE with a
\* valid token is answered 204 iff the caller is admin, the signer of the
\* stored File Metadata Event or its resolved delegator; any other is
\* answered 403 when the object exists and 404 when it does not.
C7_DeleteIff ==
  \A r \in Slots :
    FinishedDelete(r) =>
      IF ExistedAtRequest(r)
        THEN status[r] = (IF MayDelete(r) THEN 204 ELSE 403)
        ELSE status[r] = 404

\* C8: when deleteFile finds the file but no sidecar, it issues the deletes
\* only for a caller with role admin; any other caller is answered 403, and
\* a file leaves the bucket only through the deletes of a DELETE that found
\* a sidecar or came from an admin.
C8_State ==
  \A r \in Slots :
    ( /\ req[r].method = "DELETE"
      /\ \E i \in DOMAIN calls[r] :
           calls[r][i] = <<"get", MetaKey(LookupName(variant, req[r])), "null">> ) =>
      /\ Issued(r, {"delete"}) \/ pc[r] = "del_delete" =>
           RoleOf(Signer(r)) = "admin"
      /\ RoleOf(Signer(r)) # "admin" =>
           /\ pc[r] = "done" /\ status[r] = 403
           /\ bucket[FileKey(req[r].path)] # Absent

C8_AdminOnlyWithoutSidecar ==
  [][ /\ C8_State'
      /\ \A n \in KeyNames :
           (bucket[FileKey(n)] # Absent /\ bucket'[FileKey(n)] = Absent) =>
             \E r \in Slots :
               /\ req[r].method = "DELETE" /\ req[r].path = n
               /\ pc[r] = "del_delete"
               /\ meta[r] = Absent => RoleOf(Signer(r)) = "admin" ]_vars

C8_Witness ==
  \E r \in Slots :
    /\ req[r].method = "DELETE" /\ pc[r] = "done" /\ status[r] = 403
    /\ RoleOf(Signer(r)) = "user"
    /\ calls[r][Len(calls[r])] = <<"get", MetaKey(req[r].path), "null">>
    /\ bucket[FileKey(req[r].path)] # Absent

\* C9: the step that answers a DELETE with 204 leaves neither the file nor
\* its `<hash>.metadata.json` sidecar in the bucket.
C9_BothRemoved ==
  [][ \A r \in Slots :
        ( /\ req[r].method = "DELETE"
          /\ pc[r] # "done" /\ pc'[r] = "done" /\ status'[r] = 204 ) =>
          /\ bucket'[FileKey(req[r].path)] = Absent
          /\ bucket'[MetaKey(req[r].path)] = Absent ]_vars

C9_Witness ==
  \E r \in Slots :
    /\ req[r].method = "DELETE" /\ pc[r] = "done" /\ status[r] = 204
    /\ meta[r] # Absent
    /\ bucket[FileKey(req[r].path)] = Absent
    /\ bucket[MetaKey(req[r].path)] = Absent

\* The deletes of slot r that threw.
FailedDeletes(r) ==
  { i \in DOMAIN calls[r] :
      calls[r][i][1] = "delete" /\ calls[r][i][3] = "throw" }

\* C10: when exactly one of the two deletes of a DELETE fails, the request
\* is answered 500, not 204.
C10_PartialFailure ==
  \A r \in Slots :
    (req[r].method = "DELETE" /\ Cardinality(FailedDeletes(r)) = 1) =>
      pc[r] = "done" /\ status[r] = 500

C10_Witness ==
  \E r \in Slots :
    /\ req[r].method = "DELETE" /\ Cardinality(FailedDeletes(r)) = 1
    /\ pc[r] = "done" /\ status[r] = 500
    /\ bucket[FileKey(req[r].path)] = Absent
    /\ bucket[MetaKey(req[r].path)] # Absent


\* A request is in slot r and its path parameter is not a SHA-256 in hex.
MalformedPath(r) ==
  req[r].method \in Methods /\ ~hexKeyPattern(req[r].path)

Steps(r) == req'[r] # req[r] \/ pc'[r] # pc[r] \/ calls'[r] # calls[r]

\* C13: a HEAD or GET is served whether or not it carries an Authorization
\* header; none of its steps validates a token, looks up a role, calls put
\* or delete, or changes the bucket or the pending tasks, and its status is
\* a function of the path parameter and the bucket alone, so that the same
\* request against the same bucket gets the same answer.
C13_ReadOnly ==
  [][ \A r \in Slots :
        (Steps(r) /\ req'[r].method \in {"HEAD", "GET"}) =>
          /\ bucket' = bucket /\ tasks' = tasks
          /\ \A i \in DOMAIN calls'[r] :
               /\ calls'[r][i][1] = (IF req'[r].method = "HEAD" THEN "head"
                                     ELSE "get")
               /\ calls'[r][i][2] = FileKey(req'[r].path)
          /\ pc'[r] = "done" =>
               status'[r] =
                 (IF hexKeyPattern(req'[r].path)
                       /\ bucket'[FileKey(req'[r].path)] # Absent
                    THEN 200 ELSE 404) ]_vars

C13_Witness ==
  \E r \in Slots :
    /\ req[r].method = "HEAD" /\ req[r].token = NoToken
    /\ pc[r] = "done" /\ status[r] = 200
    /\ nreq = 2


\* The PUT of slot r was answered 204 and the write of its sidecar is over:
\* no task for its key is pending and a sidecar is stored.
Uploaded(r) ==
  /\ req[r].method = "PUT" /\ pc[r] = "done" /\ status[r] = 204
  /\ \A t \in tasks : t.name # req[r].path
  /\ bucket[MetaKey(req[r].path)] # Absent

\* C14 (as claimed): after such a PUT of bytes X the bucket holds exactly X
\* under the path hash and the `x` tag of the sidecar is sha256(X) in
\* lowercase hex.
C14_RoundTrip ==
  \A r \in Slots :
    Uploaded(r) =>
      /\ bucket[FileKey(req[r].path)] # Absent
      /\ bucket[FileKey(req[r].path)].body = req[r].body
      /\ bucket[MetaKey(req[r].path)].event.x = Sha256Hex(req[r].body)

\* C14 (amended): after such a PUT of bytes X the bucket holds exactly X
\* under the path hash.  Where the service builds the sidecar, its `x` tag
\* is sha256(X) in lowercase hex; where the sidecar is the event presented
\* by the uploader, its `x` tag is what the uploader signed: sha256(X) in
\* hex of either case, or no tag at all.
C14_RoundTripBytes ==
  \A r \in Slots :
    Uploaded(r) =>
      LET x == bucket[MetaKey(req[r].path)].event.x IN
      /\ bucket[FileKey(req[r].path)] # Absent
      /\ bucket[FileKey(req[r].path)].body = req[r].body
      /\ IF variant = "bound"
           THEN x # None => ToLowerCase(x) = Sha256Hex(req[r].body)
           ELSE x = Sha256Hex(req[r].body)

C14_Witness ==
  \E r \in Slots :
    /\ Uploaded(r) /\ variant = "service"
    /\ req[r].path = "AA" /\ req[r].body = "x"
    /\ bucket[MetaKey("AA")].event.x = "aa"


\* The primary put of the PUT in slot r returned the stored object.
Stored(r) ==
  /\ req[r].method = "PUT"
  /\ \E i \in DOMAIN calls[r] :
       calls[r][i] = <<"put", FileKey(req[r].path), "ok">>

\* C15 (as claimed): once the primary put of a PUT has stored the object,
\* the request does not wait for the write of the sidecar and is answered
\* 204 whatever becomes of that write.
C15_NotAwaited ==
  \A r \in Slots :
    (Stored(r) /\ req[r].dh # BadJson) =>
      /\ pc[r] = "done"
      /\ status[r] = 204


\* The value of the content-type header of a request.
ContentTypes == {None, "text/plain"}

\* The PUT in slot r, by a caller with role user, to path n was answered
\* 204 and the write of its sidecar has not yet come after it: where a task
\* writes the sidecar, the task of this request is pending.
UploadedByUser(r, n) ==
  /\ req[r].method = "PUT" /\ pc[r] = "done" /\ status[r] = 204
  /\ RoleOf(Signer(r)) = "user"
  /\ req[r].path = n /\ req[r].ctype \in ContentTypes
  /\ variant # "bound" => \E t \in tasks : t.id = nreq /\ t.name = n

\* The sidecar of n carries the checksum, size and media type of the object
\* stored under n.
SidecarMatches(n) ==
  /\ bucket[MetaKey(n)] # Absent
  /\ bucket[MetaKey(n)].event.x = bucket[FileKey(n)].sha256
  /\ bucket[MetaKey(n)].event.size = bucket[FileKey(n)].size
  /\ bucket[MetaKey(n)].event.m =
       (IF bucket[FileKey(n)].ctype = None THEN "application/octet-stream"
        ELSE bucket[FileKey(n)].ctype)

\* C16 (as claimed): when the background task is run to completion, a PUT
\* by a user that was answered 204 leads to a sidecar whose `x`, `size` and
\* `m` tags match the stored object, for as long as the object is stored.
C16_SidecarMatches ==
  \A n \in {"aa", "AA"} :
    (\E r \in Slots : UploadedByUser(r, n)) ~>
      (bucket[FileKey(n)] = Absent \/ SidecarMatches(n))

\* C16 (amended): when the background task is run to completion, a PUT by a
\* user that was answered 204 leads to a sidecar under `<hash>.metadata.json`.
\* Where the service builds it, its `x`, `size` and `m` tags are the stored
\* object's checksum, size and media type, for as long as the object is
\* stored; where the sidecar is the event the uploader presented, it is
\* already stored when 204 is answered and its tags are those the uploader
\* signed.
C16_SidecarEventually ==
  \A n \in {"aa", "AA"} :
    (\E r \in Slots : UploadedByUser(r, n)) ~>
      IF variant = "bound"
        THEN \E r \in Slots :
               /\ UploadedByUser(r, n)
               /\ bucket[MetaKey(n)] = EventObject(req[r].token)
        ELSE bucket[FileKey(n)] = Absent \/ SidecarMatches(n)

C16_Witness ==
  \E r \in Slots :
    /\ req[r] = Request("PUT", "aa", WellFormed("nip98", "PUT", "aa", "alice"),
                        "x", None, NoDelegation)
    /\ pc[r] = "done" /\ status[r] = 204
    /\ variant = "nip98" /\ tasks = {}
    /\ SidecarMatches("aa")

\* C17 (as claimed): every sidecar in the bucket is an event signed with the
\* service's key.
C17_ServiceSigned ==
  \A n \in KeyNames :
    bucket[MetaKey(n)] # Absent =>
      /\ bucket[MetaKey(n)].type = "event"
      /\ bucket[MetaKey(n)].event.pubkey = ServiceKey

\* C17 (amended): every sidecar in the bucket is a signed File Metadata
\* Event (kind 1063).  Where the service builds it, it is signed with the
\* service's key, never the uploader's; where putFile stores the event
\* presented in the Authorization header, it is signed with the key of the
\* uploader, a caller with role admin or user.
C17_SidecarSigner ==
  \A n \in KeyNames :
    bucket[MetaKey(n)] # Absent =>
      /\ bucket[MetaKey(n)].type = "event"
      /\ bucket[MetaKey(n)].event.kind = 1063
      /\ bucket[MetaKey(n)].event.sig
      /\ IF variant = "bound"
           THEN RoleOf(bucket[MetaKey(n)].event.pubkey) \in {"admin", "user"}
           ELSE bucket[MetaKey(n)].event.pubkey = ServiceKey

C17_Witness ==
  \E r \in Slots :
    /\ req[r].method = "PUT" /\ pc[r] = "done" /\ status[r] = 204
    /\ Signer(r) = "alice" /\ variant = "service"
    /\ bucket[MetaKey(req[r].path)] # Absent
    /\ bucket[MetaKey(req[r].path)].event.pubkey = ServiceKey


\* The puts the request of slot r has issued, in order.
Puts(r) == SelectSeq(calls[r], LAMBDA c : c[1] = "put")

\* The object a PUT of slot r asks the bucket to store.
PrimaryObject(r) ==
  [type |-> "file", body |-> req[r].body, ctype |-> req[r].ctype,
   size |-> SizeOf(req[r].body), sha256 |-> ToLowerCase(req[r].path),
   cacheControl |-> "public, max-age=31536000, immutable"]

BucketCalls(r) == SelectSeq(calls[r], LAMBDA c : c[1] \in BucketOps)

\* The order of the bucket calls of a PUT.
C19_Order ==
  \A r \in Slots :
    req[r].method = "PUT" =>
      LET bc == BucketCalls(r) IN
      /\ ( /\ Authenticated(variant, req[r])
           /\ RoleOf(Signer(r)) \in {"admin", "user"}
           /\ PutPrecheck(variant, req[r]) = 0
           /\ pc[r] \notin {"kv", "thrown"} ) =>
             pc[r] = "put_head" \/ bc # <<>>
      /\ bc # <<>> =>
           /\ bc[1][1] = "head" /\ bc[1][2] = FileKey(req[r].path)
           /\ bc[1][3] = "ok" =>
                Len(bc) = 1 /\ pc[r] = "done" /\ status[r] = 409
           /\ bc[1][3] = "throw" =>
                Len(bc) = 1 /\ pc[r] = "done" /\ status[r] = 500
           /\ bc[1][3] = "null" => pc[r] = "put_put" \/ Len(bc) >= 2
      /\ (pc[r] = "done" /\ status[r] = 409) => Len(bc) = 1 /\ bc[1][3] = "ok"
      /\ Len(bc) >= 2 =>
           /\ bc[2][1] = "put" /\ bc[2][2] = FileKey(req[r].path)
           /\ Len(bc) <= (IF variant = "bound" /\ bc[2][3] = "ok" THEN 3 ELSE 2)
      /\ \A t \in tasks : t.id = nreq => Stored(r)

C20_FourOutcomes ==
  \A r \in Slots :
    ( /\ req[r].method = "DELETE" /\ Authenticated(variant, req[r])
      /\ pc[r] = "done" ) => status[r] \in {403, 404, 204, 500}

\* C20 (amended): an authenticated DELETE that is answered is answered 400
\* (malformed hash, from a caller with role admin or user), 403, 404, 204 or
\* 500; and the deletes are issued only after the get of the file has found
\* an object and the decision on the caller has been taken in their favour.
C20_DeleteStateMachine ==
  \A r \in Slots :
    (req[r].method = "DELETE" /\ Authenticated(variant, req[r])) =>
      LET bc == BucketCalls(r) IN
      /\ pc[r] = "done" =>
           /\ status[r] \in {400, 403, 404, 204, 500}
           /\ status[r] = 400 <=>
                /\ ~hexKeyPattern(req[r].path)
                /\ RoleOf(Signer(r)) \in {"admin", "user"}
           /\ status[r] = 204 => Issued(r, {"delete"})
           /\ status[r] = 404 => Len(bc) = 1 /\ bc[1][3] = "null"
      /\ Issued(r, {"delete"}) =>
           /\ Len(bc) = 4
           /\ bc[1] = <<"get", FileKey(LookupName(variant, req[r])), "ok">>
           /\ bc[2][1] = "get" /\ bc[2][3] # "throw"
           /\ bc[2][2] = MetaKey(LookupName(variant, req[r]))
           /\ bc[3][1] = "delete" /\ bc[4][1] = "delete"
           /\ \/ RoleOf(Signer(r)) = "admin"
              \/ /\ RoleOf(Signer(r)) = "user"
                 /\ meta[r] # Absent
                 /\ \/ meta[r].event.pubkey = Signer(r)
                    \/ /\ meta[r].event.deleg.state = "valid"
                       /\ meta[r].event.deleg.from = Signer(r)

C20_Witness ==
  \E r \in Slots :
    /\ req[r].method = "DELETE" /\ pc[r] = "done" /\ status[r] = 204
    /\ RoleOf(Signer(r)) = "user"
    /\ BucketCalls(r) =
         << <<"get", FileKey(req[r].path), "ok">>,
            <<"get", MetaKey(req[r].path), "ok">>,
            <<"delete", FileKey(req[r].path), "ok">>,
            <<"delete", MetaKey(req[r].path), "ok">> >>

\* ------------------------------------------------------------------- C21
\* The step of slot r in which the put of the file under name n settles.
PutSettles(r, n) ==
  /\ pc[r] = "put_put" /\ pc'[r] # "put_put"
  /\ req[r].path = n

\* C21: the primary put is create-if-absent: a put that settles when its
\* key holds an object (stored since the handler's existence check) leaves
\* that object as it is.
C21_CreateIfAbsent ==
  [][\A r \in Inflight, n \in {"aa", "AA"} :
       PutSettles(r, n) /\ bucket[FileKey(n)] # Absent
         => bucket'[FileKey(n)] = bucket[FileKey(n)]]_vars

\* ------------------------------------------------------------------- C22
\* The PUT of slot r has awaited head and found no object under its name.
SawAbsent(r) ==
  /\ req[r].method = "PUT"
  /\ \E i \in DOMAIN calls[r] :
       calls[r][i] = <<"head", FileKey(req[r].path), "null">>

\* The two slots hold PUTs for the same name and both found it absent.
BothSawAbsent ==
  /\ SawAbsent("r1") /\ SawAbsent("r2")
  /\ req["r1"].path = req["r2"].path

\* C22: nothing in putFile excludes two PUTs for one hash from both passing
\* the existence check: once a PUT has found its name absent, its put is
\* issued and stores the object whatever the other request has stored in
\* the meantime, a provenance write is scheduled for it (a task of its own,
\* or the awaited put of the sidecar), and it is answered 204 unless the
\* bucket throws.
C22_BothProceed ==
  [][/\ \A r \in Inflight :
          (SawAbsent(r) /\ pc[r] = "done" /\ NoThrow(r))' =>
            (/\ status[r] = 204
             /\ Puts(r)[1] = <<"put", FileKey(req[r].path), "ok">>
             /\ variant = "bound" =>
                  Puts(r)[2] = <<"put", MetaKey(req[r].path), "ok">>)'
     /\ \A r \in Inflight :
          /\ PutSettles(r, req[r].path)
          /\ calls'[r][Len(calls'[r])][3] = "ok"
          /\ variant # "bound"
          => /\ bucket'[FileKey(req[r].path)] = PrimaryObject(r)
             /\ \E t \in tasks' \ tasks :
                  t.slot = r /\ t.name = req[r].path]_vars

\* Both PUTs found the name absent, both stored the object and both were
\* answered 204, with a provenance task pending for each.
C22_Witness ==
  /\ BothSawAbsent
  /\ \A r \in Inflight :
       /\ pc[r] = "done" /\ status[r] = 204
       /\ Puts(r) = << <<"put", FileKey(req[r].path), "ok">> >>
       /\ \E t \in tasks : t.slot = r /\ t.name = req[r].path

\* ------------------------------------------------------------------- C23
\* The keys that belong to the name n: the file and its sidecar.
KeysOf(n) == {FileKey(n), MetaKey(n)}

\* C23: a request for the hash h calls the bucket only on the keys h and
\* `h.metadata.json`, each of its steps leaves every other key as it is,
\* and so does the background task it scheduled; requests for different
\* hashes therefore read and write disjoint keys and cannot affect one
\* another, however their steps interleave.
C23_OwnKeysOnly ==
  [][/\ \A r \in Inflight :
          \A i \in DOMAIN calls'[r] :
            calls'[r][i][1] \in BucketOps =>
              calls'[r][i][2] \in KeysOf(req'[r].path)
     /\ \A r \in Inflight :
          Steps(r) /\ req'[r].path \in KeyNames =>
            \A k \in Keys \ KeysOf(req'[r].path) : bucket'[k] = bucket[k]
     /\ \A t \in tasks :
          tasks' = tasks \ {t} =>
            \A k \in Keys \ KeysOf(t.name) : bucket'[k] = bucket[k]]_vars

\* ------------------------------------------------------------------- C24
\* The DELETE of slot r has read a sidecar whose delegation tag makes
\* nip26.getDelegator throw.
ResolutionFailed(r) ==
  /\ req[r].method = "DELETE"
  /\ meta[r] # Absent
  /\ meta[r].event.deleg.state = "malformed"

StoreThrew(r, ops) ==
  \E i \in DOMAIN calls[r] :
    calls[r][i][1] \in ops /\ calls[r][i][3] = "throw"

\* C25: whenever a call on the bucket or on the role store throws, on any
\* verb, the handler catches it and the request is answered 500; no
\* exception leaves the handler.
C25_StoreErrorIs500 ==
  \A r \in Slots :
    StoreThrew(r, BucketOps \cup {"kv.get"}) =>
      pc[r] = "done" /\ status[r] = 500

\* ------------------------------------------------------------------- C26
\* The kind of event revision v takes as a token.
TokenKind(v) == IF v = "nip98" THEN 27235 ELSE 1063

\* The token of slot r fails: no header, text that cannot be decoded, an
\* event of the wrong kind or one whose signature does not verify.
TokenFails(r) ==
  \/ req[r].token.form \in {"none", "garbage"}
  \/ req[r].token.kind # TokenKind(variant)
  \/ ~req[r].token.sig

\* C26: a PUT or DELETE whose token fails is answered 401 by auth, whether
\* the failure is a returned error or an exception caught while decoding or
\* verifying; the role store and the bucket are not called, the answer is
\* never 500 and no exception leaves auth.
C26_TokenFailureIs401 ==
  \A r \in Slots :
    req[r].method \in {"PUT", "DELETE"} /\ TokenFails(r) =>
      /\ pc[r] = "done" /\ status[r] = 401
      /\ calls[r] = << <<"auth", <<>>, "throw">> >>

\* A DELETE whose token is an event of the right kind with a signature
\* that does not verify, answered 401.
C26_Witness ==
  \E r \in Slots :
    /\ req[r].method = "DELETE" /\ pc[r] = "done" /\ status[r] = 401
    /\ req[r].token.form = "event" /\ ~req[r].token.sig
    /\ req[r].token.kind = TokenKind(variant)

\* ------------------------------------------------------------------- C27
\* C27: a PUT or DELETE whose token was created outside the freshness
\* window is answered 401, so a token that was accepted once cannot be
\* presented again after the window.
C27_StaleTokenIs401 ==
  \A r \in Slots :
    /\ req[r].method \in {"PUT", "DELETE"}
    /\ req[r].token.form = "event" /\ ~req[r].token.fresh
    => pc[r] = "done" /\ status[r] = 401

\* ------------------------------------------------------------------- C28
\* The PUT of slot r has passed auth and the role check, names a well-formed
\* hash and has a body, and its token carries a `payload` tag.
PutWithPayload(r) ==
  /\ req[r].method = "PUT" /\ pc[r] = "done"
  /\ role[r] \in PutRoles
  /\ hexKeyPattern(req[r].path) /\ req[r].body # NoBody
  /\ req[r].token.payload # None

\* C28: a PUT whose token carries a `payload` tag is answered 401 when the
\* tag is not the lowercase hex SHA-256 of the body (unless the bucket threw
\* or the existence check already answered 409), and is not answered 401
\* when it is and the body is the content the path names.
C28_PayloadBinding ==
  \A r \in Slots :
    PutWithPayload(r) =>
      /\ /\ req[r].token.payload # Sha256Hex(req[r].body)
         /\ NoThrow(r) /\ status[r] # 409
         => status[r] = 401
      /\ /\ req[r].token.payload = Sha256Hex(req[r].body)
         /\ ChecksumMatches(req[r].path, req[r].body)
         => status[r] # 401

\* ------------------------------------------------------------------- C29
\* C29: a sidecar, once written, keeps its content for as long as the
\* object it describes remains stored: no step that leaves the object of a
\* name in place replaces the content of the sidecar of that name.
C29_SidecarImmutable ==
  [][\A n \in {"aa", "AA"} :
       /\ bucket[MetaKey(n)] # Absent /\ bucket'[MetaKey(n)] # Absent
       /\ bucket[FileKey(n)] # Absent /\ bucket'[FileKey(n)] # Absent
       => bucket'[MetaKey(n)] = bucket[MetaKey(n)]]_vars

\* ------------------------------------------------------------------- C30
\* The DELETE of slot r carries a token that auth accepted, and the role
\* store's answer for its signer has come back.
RoleLookedUp(r) ==
  /\ req[r].method = "DELETE"
  /\ Len(calls[r]) >= 2
  /\ calls[r][1] = <<"auth", <<>>, "ok">>
  /\ calls[r][2][1] = "kv.get" /\ calls[r][2][3] # "throw"

\* C30: a DELETE whose signer has the role banned or no role is answered
\* 403 as soon as the role is known; it calls the bucket neither to read nor
\* to delete, so the publisher and the delegator recorded in the sidecar
\* play no part and nothing is removed.
C30_DeleteGate ==
  [][\A r \in Slots :
       /\ (RoleLookedUp(r) /\ RoleOf(Signer(r)) \notin {"user", "admin"})' =>
            (/\ pc[r] = "done" /\ status[r] = 403
             /\ ~Issued(r, BucketOps))'
       /\ /\ Steps(r) /\ req'[r].method = "DELETE"
          /\ RoleOf(req'[r].token.pubkey) \notin {"user", "admin"}
          => bucket' = bucket]_vars

\* A banned caller whom the stored sidecar names as its valid delegator is
\* refused, and the file and its sidecar are still there.
C30_Witness ==
  \E r \in Slots :
    /\ RoleLookedUp(r) /\ status[r] = 403
    /\ RoleOf(Signer(r)) = "banned"
    /\ req[r].path \in KeyNames
    /\ bucket[FileKey(req[r].path)] # Absent
    /\ bucket[MetaKey(req[r].path)] # Absent
    /\ bucket[MetaKey(req[r].path)].event.deleg =
         [from |-> Signer(r), state |-> "valid"]

\* ------------------------------------------------------------------- C31
\* The PUT of slot r carries a token that auth accepted and its signer has
\* the role user or admin.
AuthorizedPut(r) ==
  /\ req[r].method = "PUT"
  /\ Len(calls[r]) >= 2
  /\ calls[r][1] = <<"auth", <<>>, "ok">>
  /\ calls[r][2][1] = "kv.get" /\ calls[r][2][3] # "throw"
  /\ RoleOf(Signer(r)) \in {"user", "admin"}

C32_NoOrphanSidecar ==
  (\A r \in Slots : NoThrow(r)) =>
    \A n \in KeyNames :
      bucket[MetaKey(n)] # Absent => bucket[FileKey(n)] # Absent

\* ------------------------------------------------------------------- C33
\* C33: a PUT that is answered with a status other than 204 has stored
\* nothing: none of its puts, of the object or of the sidecar, took effect,
\* and it scheduled no background write.
C33_FailedPutWritesNothing ==
  \A r \in Slots :
    req[r].method = "PUT" /\ pc[r] = "done" /\ status[r] # 204 =>
      /\ \A i \in DOMAIN calls[r] :
           ~(calls[r][i][1] = "put" /\ calls[r][i][3] = "ok")
      /\ \A t \in tasks : ~(t.slot = r /\ t.id = nreq)

\* ------------------------------------------------------------------- C34
\* C34: where the service signs the sidecar, a DELETE by a caller with role
\* user for a stored object whose sidecar exists, is signed by the service
\* and records no delegation is answered 403 (unless the bucket throws) and
\* the object stays: the recorded publisher is the service, never the
\* uploader.
C34_UploaderRefused ==
  [][\A r \in Slots :
       LET n == req[r].path IN
       /\ variant \in {"nip98", "service"}
       /\ req[r].method = "DELETE" /\ role[r] = "user"
       /\ Signer(r) # ServiceKey
       /\ pc[r] \in {"del_get", "del_meta"} /\ pc'[r] = "done"
       /\ NoThrow(r)'
       /\ bucket[FileKey(n)] # Absent
       /\ bucket[MetaKey(n)] # Absent
       /\ bucket[MetaKey(n)].event.pubkey = ServiceKey
       /\ bucket[MetaKey(n)].event.deleg = NoDelegation
       => /\ status'[r] = 403
          /\ bucket'[FileKey(n)] # Absent]_vars

\* ------------------------------------------------------------------- C35
\* The PUT of slot r, with a File Metadata Event as token, has reached
\* putFile's comparison of the `x` tag: the caller is authorized, the hash
\* is well-formed, there is a body and, in revision bound, the `url` tag is
\* the request's URL.
ReachedXCheck(r) ==
  /\ variant # "nip98"
  /\ AuthorizedPut(r)
  /\ hexKeyPattern(req[r].path) /\ req[r].body # NoBody
  /\ variant = "bound" => req[r].token.url = UrlOf(req[r].path)

\* The `x` tag of the token of slot r names another hash than the path,
\* whatever the case of the hex digits.
XDiffers(r) ==
  /\ req[r].token.x # None
  /\ ToLowerCase(req[r].token.x) # ToLowerCase(req[r].path)

\* C35: a PUT whose File Metadata Event has an `x` tag that differs from the
\* path hash, compared without regard to case, is answered 400 and calls
\* the bucket neither with head nor with put; a token without `x` tag, or
\* with an `x` tag that differs from the path in case only, passes on to
\* the existence check.
C35_XTagCheck ==
  \A r \in Slots :
    ReachedXCheck(r) =>
      IF XDiffers(r)
        THEN /\ pc[r] = "done" /\ status[r] = 400
             /\ ~Issued(r, BucketOps)
        ELSE pc[r] = "put_head" \/ Issued(r, {"head"})

C35_Witness ==
  \E r \in Slots :
    /\ ReachedXCheck(r) /\ XDiffers(r)
    /\ pc[r] = "done" /\ status[r] = 400
    /\ req[r].body = "x" /\ req[r].path = "aa"

\* ------------------------------------------------------------------- C36
\* C36: the `url` tag of the File Metadata Event stored as the sidecar of a
\* hash is the URL under which GET serves the object,
\* `https://<host>/file/<hash>`.
C36_UrlTag ==
  \A n \in {"aa", "AA"} :
    bucket[MetaKey(n)] # Absent =>
      bucket[MetaKey(n)].event.url = UrlOf(n)

\* ------------------------------------------------------------------- C37
\* The DELETE of slot r has read a sidecar whose delegation tag names the
\* caller as `from` but does not verify against the event's signer: its
\* conditions or signature fail, or verification throws.
NamedByUnverifiedTag(r) ==
  /\ req[r].method = "DELETE"
  /\ meta[r] # Absent
  /\ meta[r].event.deleg.from = Signer(r)
  /\ meta[r].event.deleg.state \in {"invalid", "malformed"}

\* C37: a caller named as `from` by a delegation tag that does not verify
\* gains nothing from the tag: deleteFile goes on to the deletes only when
\* the caller is admin or the signer of the stored event, and otherwise
\* answers 403 and leaves the object where it is.
C37_UnverifiedDelegation ==
  \A r \in Slots :
    NamedByUnverifiedTag(r) =>
      IF role[r] = "admin" \/ meta[r].event.pubkey = Signer(r)
        THEN pc[r] = "del_delete" \/ Issued(r, {"delete"})
        ELSE /\ pc[r] = "done" /\ status[r] = 403
             /\ ~Issued(r, {"delete"})
             /\ bucket[FileKey(req[r].path)] # Absent

C37_Witness ==
  \E r \in Slots :
    /\ NamedByUnverifiedTag(r)
    /\ meta[r].event.deleg.state = "invalid"
    /\ role[r] = "user" /\ meta[r].event.pubkey # Signer(r)
    /\ pc[r] = "done" /\ status[r] = 403

====
